---- MODULE Spec2Model ----
(***************************************************************************)
(* Tagger/verbalizer grammar units of NeMo-text-processing.                *)
(*                                                                         *)
(* A string is a sequence of characters, each character a one-element      *)
(* string; U+00A0 is the character NEMO_NON_BREAKING_SPACE.  A transducer  *)
(* is an operator on sets of configurations [rest, out]: the input still   *)
(* to be read and the output written so far.  Applying a transducer to a   *)
(* set of configurations gives every configuration one of its paths can    *)
(* reach, so concatenation is operator composition and union is set union. *)
(* A transducer handed to a function (closure, add_tokens, delete_tokens,  *)
(* convert_space) is handed by name and run by apply.                      *)
(***************************************************************************)
EXTENDS Integers, Sequences, FiniteSets, TLC

VARIABLES unit, pc, far_exist, fst, assigned, op, args, res

vars == <<unit, pc, far_exist, fst, assigned, op, args, res>>

----------------------------------------------------------------------------
(* Bounds of the model *)

MaxWs == 2
MaxValLen == 2
MaxNameLen == 2
MaxWordLen == 3
MaxBlocks == 2

----------------------------------------------------------------------------
(* Strings and configurations *)

Take(s, k) == SubSeq(s, 1, k)
Drop(s, k) == SubSeq(s, k + 1, Len(s))
IsPrefix(p, s) == Len(p) <= Len(s) /\ SubSeq(s, 1, Len(p)) = p
IsSuffix(p, s) == Len(p) <= Len(s) /\ SubSeq(s, Len(s) - Len(p) + 1, Len(s)) = p

\* every sequence over alphabet A of length lo..hi
Strings(A, lo, hi) == UNION {[1..n -> A] : n \in lo..hi}

Start(s) == {[rest |-> s, out |-> <<>>]}

\* the outputs of the accepting paths: the whole input was read
Outputs(C) == {c.out : c \in {c \in C : c.rest = <<>>}}

----------------------------------------------------------------------------
(* graph_utils.py: character classes and the shared small transducers *)

QUOTE == "\""
NEMO_NON_BREAKING_SPACE == "U+00A0"
NEMO_SPACE == " "
NEMO_WHITE_SPACE == {" ", "\t", "\n", "\r", NEMO_NON_BREAKING_SPACE}

\* pynutil.delete(lit): reads lit, writes nothing
delete(lit, C) ==
    {[rest |-> Drop(c.rest, Len(lit)), out |-> c.out] :
        c \in {c \in C : IsPrefix(lit, c.rest)}}

\* pynutil.insert(lit): reads nothing, writes lit
insert(lit, C) == {[rest |-> c.rest, out |-> c.out \o lit] : c \in C}

\* pynini.cross(in, out): reads in, writes out
cross(in, out, C) == insert(out, delete(in, C))

\* pynini.string_file(table): the union of the crosses of the table's rows
string_file(table, C) == UNION {cross(row[1], row[2], C) : row \in table}

\* the lengths k such that the first k characters of s are all in class S
Runs(S, s) == {k \in 0..Len(s) : \A i \in 1..k : s[i] \in S}

\* the lengths k such that none of the first k characters of s is a quote
QuoteFreeRuns(s) == {k \in 0..Len(s) : \A i \in 1..k : s[i] # QUOTE}

delete_space(C) ==
    UNION {{[rest |-> Drop(c.rest, k), out |-> c.out] :
               k \in Runs(NEMO_WHITE_SPACE, c.rest)} : c \in C}

insert_space(C) == insert(<<" ">>, C)

\* delete_extra_space copying the whitespace it reads instead of writing one space
delete_extra_space_kept(C) ==
    UNION {{[rest |-> Drop(c.rest, k), out |-> c.out \o Take(c.rest, k)] :
               k \in Runs(NEMO_WHITE_SPACE, c.rest) \ {0}} : c \in C}

delete_extra_space(C) ==
    UNION {{[rest |-> Drop(c.rest, k), out |-> c.out \o <<" ">>] :
               k \in Runs(NEMO_WHITE_SPACE, c.rest) \ {0}} : c \in C}

\* NEMO_NOT_QUOTE: copies one character that is not a quote
NEMO_NOT_QUOTE(C) ==
    UNION {{[rest |-> Drop(c.rest, k), out |-> c.out \o Take(c.rest, k)] :
               k \in QuoteFreeRuns(c.rest) \cap {1}} : c \in C}

\* pynini.closure(NEMO_NOT_QUOTE, 1): copies one or more non-quote characters
closure_NOT_QUOTE_1(C) ==
    UNION {{[rest |-> Drop(c.rest, k), out |-> c.out \o Take(c.rest, k)] :
               k \in QuoteFreeRuns(c.rest) \ {0}} : c \in C}

\* pynini.closure(NEMO_NOT_QUOTE): copies zero or more non-quote characters
closure_NOT_QUOTE(C) == C \cup closure_NOT_QUOTE_1(C)

\* NEMO_SIGMA: copies any number of characters
NEMO_SIGMA(C) ==
    UNION {{[rest |-> Drop(c.rest, k), out |-> c.out \o Take(c.rest, k)] :
               k \in 0..Len(c.rest)} : c \in C}

\* pynini.accep(lit): copies lit
accep(lit, C) == cross(lit, lit, C)

\* the first place of s that holds the character, 0 when none does
FirstAt(ch, s) ==
    IF \E i \in 1..Len(s) : s[i] = ch
    THEN CHOOSE i \in 1..Len(s) : s[i] = ch /\ \A j \in 1..(i - 1) : s[j] # ch
    ELSE 0

\* a rewrite of the first occurrence only
cdrewrite_first(from, to, s) ==
    [i \in 1..Len(s) |-> IF i = FirstAt(from, s) THEN to ELSE s[i]]

\* pynini.cdrewrite(pynini.cross(from, to), "", "", NEMO_SIGMA) on a string:
\* the obligatory rewrite of every occurrence of the character
cdrewrite(from, to, s) == [i \in 1..Len(s) |-> IF s[i] = from THEN to ELSE s[i]]

\* the transducer of that name, run on C (defined once the grammars are)
RECURSIVE apply(_, _)

\* pynini.closure(fst): zero or more passes through fst
RECURSIVE closure(_, _, _)
closure(graph, reached, frontier) ==
    IF frontier = {} THEN reached
    ELSE LET new == apply(graph, frontier) \ reached
         IN  closure(graph, reached \cup new, new)

\* the alternatives of delete_preserve_order, one pass
delete_preserve_order_alt(C) ==
    delete(<<" ", "p", "r", "e", "s", "e", "r", "v", "e", "_", "o", "r", "d", "e", "r", ":", " ", "t", "r", "u", "e">>, C)
    \cup delete(<<QUOTE>>, NEMO_NOT_QUOTE(delete(<<" ", "f", "i", "e", "l", "d", "_", "o", "r", "d", "e", "r", ":", " ", "\"">>, C)))

delete_preserve_order(C) == closure("delete_preserve_order_alt", C, C)

\* convert_space(fst): fst composed with cdrewrite(" " -> U+00A0)
convert_space(graph, C) ==
    UNION {{[rest |-> r.rest,
             out |-> c.out \o cdrewrite(NEMO_SPACE, NEMO_NON_BREAKING_SPACE, r.out)] :
               r \in apply(graph, Start(c.rest))} : c \in C}

----------------------------------------------------------------------------
(* graph_utils.py: the plural transform.  A transducer applied to one whole  *)
(* string is the set of its outputs on that string.                          *)

\* data/suppletive.tsv: rows (singular, plural)
suppletive_tsv == {<<<<"o", "x">>, <<"o", "x", "e", "n">>>>}

suppletive(w) == {row[2] : row \in {row \in suppletive_tsv : row[1] = w}}

_c ==
    {"b", "c", "d", "f", "g", "h", "j", "k", "l", "m", "n", "p", "q", "r", "s", "t",
     "v", "w", "x", "y", "z"}

\* NEMO_SIGMA + _c + cross("y", "ies")
_ies(w) ==
    IF Len(w) >= 2 /\ w[Len(w)] = "y" /\ w[Len(w) - 1] \in _c
    THEN {Take(w, Len(w) - 1) \o <<"i", "e", "s">>}
    ELSE {}

\* NEMO_SIGMA + union("s", "sh", "ch", "x", "z") + insert("es")
_es(w) ==
    {w \o <<"e", "s">> : suffix \in {suffix \in {<<"s">>, <<"s", "h">>, <<"c", "h">>, <<"x">>, <<"z">>} : IsSuffix(suffix, w)}}

\* NEMO_SIGMA + insert("s")
_s(w) == {w \o <<"s">>}

\* a union that lets r write where q already does
plain_union(q, r) == q \cup r

\* plurals._priority_union(q, r, NEMO_SIGMA) on one string: q, and r only
\* where q has no output
_priority_union(q, r) == IF q # {} THEN q ELSE r

\* the rules tried before the exception table instead of after it
graph_plural_rules_first(w) ==
    _priority_union(_ies(w),
        _priority_union(_es(w), _priority_union(_s(w), suppletive(w))))

graph_plural(w) ==
    _priority_union(suppletive(w),
        _priority_union(_ies(w), _priority_union(_es(w), _s(w))))

SINGULAR_TO_PLURAL(w) == graph_plural(w)

\* every string a rule of graph_plural could have read to write p
Preimages(p) ==
    {row[1] : row \in suppletive_tsv}
    \cup {Take(p, k) : k \in 0..Len(p)}
    \cup {Take(p, k) \o <<"y">> : k \in 0..Len(p)}

\* pynini.invert(graph_plural): the strings whose plural is p
PLURAL_TO_SINGULAR(p) == {w \in Preimages(p) : p \in graph_plural(w)}

----------------------------------------------------------------------------
(* graph_utils.py: capitalized input.  A weighted grammar is the set of its  *)
(* paths [in, out, w]; weights are counted in units of 0.0001, and a weight  *)
(* argument is <<>> for None and <<weight>> otherwise.                       *)

ascii_uppercase == <<"A", "B", "C", "D", "E", "F", "G", "H", "I", "J", "K", "L", "M", "N", "O", "P", "Q", "R", "S", "T", "U", "V", "W", "X", "Y", "Z">>
ascii_lowercase == <<"a", "b", "c", "d", "e", "f", "g", "h", "i", "j", "k", "l", "m", "n", "o", "p", "q", "r", "s", "t", "u", "v", "w", "x", "y", "z">>

\* rows (read, written)
TO_LOWER == {<<ascii_uppercase[i], ascii_lowercase[i]>> : i \in DOMAIN ascii_uppercase}
TO_UPPER == {<<row[2], row[1]>> : row \in TO_LOWER}

MIN_NEG_WEIGHT == -1
MIN_POS_WEIGHT == 1

\* pynutil.add_weight(graph, weight)
add_weight(graph, weight) ==
    {[in |-> t.in, out |-> t.out, w |-> t.w + weight] : t \in graph}

\* pynini.compose(TO_LOWER + NEMO_SIGMA, graph): the paths of graph whose input
\* starts with a lower-case letter, read with the upper-case letter instead
compose_TO_LOWER_SIGMA(graph) ==
    UNION {{[in |-> <<row[1]>> \o Tail(t.in), out |-> t.out, w |-> t.w] :
               row \in {row \in TO_LOWER : row[2] = t.in[1]}} :
             t \in {t \in graph : t.in # <<>>}}

\* the capitalized graph alone, the original graph left out of the union
capitalized_only(graph, original_graph_weight, capitalized_graph_weight) ==
    IF capitalized_graph_weight # <<>>
    THEN add_weight(compose_TO_LOWER_SIGMA(graph), capitalized_graph_weight[1])
    ELSE compose_TO_LOWER_SIGMA(graph)

capitalized_input_graph(graph, original_graph_weight, capitalized_graph_weight) ==
    LET capitalized_graph == compose_TO_LOWER_SIGMA(graph)
        original == IF original_graph_weight # <<>>
                    THEN add_weight(graph, original_graph_weight[1])
                    ELSE graph
        capitalized == IF capitalized_graph_weight # <<>>
                       THEN add_weight(capitalized_graph, capitalized_graph_weight[1])
                       ELSE capitalized_graph
    IN  original \cup capitalized

\* str.upper() on one character: the ASCII letters and the accented e
str_upper(ch) ==
    IF \E row \in TO_UPPER : row[1] = ch
    THEN (CHOOSE row \in TO_UPPER : row[1] = ch)[2]
    ELSE IF ch = "U+00E9" THEN "U+00C9" ELSE ch

\* written[0].upper() + written[1:]
capitalize_first_letter(s) == IF s = <<>> THEN s ELSE <<str_upper(s[1])>> \o Tail(s)

\* the outputs a grammar gives on one input string
OutputsOn(graph, s) == {t.out : t \in {t \in graph : t.in = s}}

\* the (input, output) pairs a grammar accepts
Pairs(graph) == {<<t.in, t.out>> : t \in graph}

----------------------------------------------------------------------------
(* graph_utils.py: class GraphFst *)

\* GraphFst.add_tokens(fst)
add_tokens(name, graph, C) ==
    insert(<<" ", "}">>, apply(graph, insert(name \o <<" ", "{", " ">>, C)))

\* delete_tokens without the delete_space before the closing brace
delete_tokens_tight(name, graph, C) ==
    UNION {{[rest |-> r.rest,
             out |-> c.out \o cdrewrite(NEMO_NON_BREAKING_SPACE, " ", r.out)] :
               r \in delete(<<"}">>,
                       apply(graph,
                         delete_space(
                           delete(<<"{">>,
                             delete_space(
                               delete(name, Start(c.rest)))))))} : c \in C}

\* GraphFst.delete_tokens(fst): res composed with cdrewrite(U+00A0 -> " ")
delete_tokens(name, graph, C) ==
    UNION {{[rest |-> r.rest,
             out |-> c.out \o cdrewrite(NEMO_NON_BREAKING_SPACE, " ", r.out)] :
               r \in delete(<<"}">>,
                       delete_space(
                         apply(graph,
                           delete_space(
                             delete(<<"{">>,
                               delete_space(
                                 delete(name, Start(c.rest))))))))} : c \in C}

----------------------------------------------------------------------------
(* es/verbalizers/date.py: class DateFst *)

\* data/dates/months.tsv and months_cased.tsv: rows (written, rendered)
months_tsv == {<<<<"e", "n", "e", "r", "o">>, <<"e", "n", "e", "r", "o">>>>, <<<<"M", "a", "y", "o">>, <<"M", "a", "y", "o">>>>}

graph_month(C) == string_file(months_tsv, C)

year(C) ==
    delete(<<QUOTE>>,
      closure_NOT_QUOTE_1(delete(<<QUOTE>>, delete_space(delete(<<"y", "e", "a", "r", ":">>, C)))))

month(C) ==
    delete(<<QUOTE>>,
      graph_month(delete(<<QUOTE>>, delete_space(delete(<<"m", "o", "n", "t", "h", ":">>, C)))))

day(C) ==
    delete(<<QUOTE>>,
      closure_NOT_QUOTE_1(delete(<<QUOTE>>, delete_space(delete(<<"d", "a", "y", ":">>, C)))))

\* day month, or month day
graph_dm_either_order(C) ==
    month(insert_space(insert(<<"d", "e">>, delete_extra_space(day(C)))))
    \cup day(insert_space(insert(<<"d", "e">>, delete_extra_space(month(C)))))

\* day month
graph_dm(C) == month(insert_space(insert(<<"d", "e">>, delete_extra_space(day(C)))))

\* the alternatives of optional_preserve_order, one pass
optional_preserve_order_alt(C) ==
    delete_space(delete(<<"t", "r", "u", "e">>, delete_space(delete(<<"p", "r", "e", "s", "e", "r", "v", "e", "_", "o", "r", "d", "e", "r", ":">>, C))))
    \cup delete_space(
           delete(<<QUOTE>>,
             NEMO_NOT_QUOTE(
               delete(<<QUOTE>>, delete_space(delete(<<"f", "i", "e", "l", "d", "_", "o", "r", "d", "e", "r", ":">>, C))))))

optional_preserve_order(C) == closure("optional_preserve_order_alt", C, C)

final_graph(C) == optional_preserve_order(delete_space(graph_dm(C) \cup year(C)))

\* DateFst().fst
DateFst_fst(C) == delete_tokens(<<"d", "a", "t", "e">>, "final_graph", C)

----------------------------------------------------------------------------
(* hi/verbalizers/verbalize_final.py: class VerbalizeFinalFst *)

\* WordFst().fst: name: "<word>" gives <word>
word(C) ==
    delete(<<QUOTE>>,
      closure_NOT_QUOTE_1(delete(<<QUOTE>>, delete_space(delete(<<"n", "a", "m", "e", ":">>, C)))))

\* verbalize | word, of which the word verbalizer is modelled
types(C) == word(C)

\* tokens { <record> }
tokens_graph(C) ==
    delete(<<"}">>,
      delete_space(
        types(delete_space(delete(<<"{">>, delete_space(delete(<<"t", "o", "k", "e", "n", "s">>, C)))))))

\* graph + delete_extra_space
tokens_graph_then_space(C) == delete_extra_space(tokens_graph(C))

\* the sentence graph without the last block after the closure
VerbalizeFinalFst_fst_no_last(C) ==
    delete_space(closure("tokens_graph_then_space", delete_space(C), delete_space(C)))

\* delete_space + closure(graph + delete_extra_space) + graph + delete_space
VerbalizeFinalFst_fst(C) ==
    delete_space(
      tokens_graph(closure("tokens_graph_then_space", delete_space(C), delete_space(C))))

----------------------------------------------------------------------------
(* The grammars of one string-valued field, on the tagger's side and on the *)
(* verbalizer's                                                             *)

\* tagger: <value> gives name: "<value>"
TagField(C) == insert(<<QUOTE>>, NEMO_SIGMA(insert(<<"n", "a", "m", "e", ":", " ", "\"">>, C)))

\* tagger, the value's spaces protected by convert_space
TagFieldSpaced(C) == insert(<<QUOTE>>, convert_space("NEMO_SIGMA", insert(<<"n", "a", "m", "e", ":", " ", "\"">>, C)))

\* verbalizer that hands the field content on as it is
FieldContent(C) == accep(<<QUOTE>>, closure_NOT_QUOTE(accep(<<"n", "a", "m", "e", ":", " ", "\"">>, C)))

apply(graph, C) ==
    CASE graph = "NEMO_SIGMA" -> NEMO_SIGMA(C)
      [] graph = "delete_preserve_order_alt" -> delete_preserve_order_alt(C)
      [] graph = "optional_preserve_order_alt" -> optional_preserve_order_alt(C)
      [] graph = "final_graph" -> final_graph(C)
      [] graph = "tokens_graph_then_space" -> tokens_graph_then_space(C)
      [] graph = "TagField" -> TagField(C)
      [] graph = "TagFieldSpaced" -> TagFieldSpaced(C)
      [] graph = "FieldContent" -> FieldContent(C)
      [] graph = "word" -> word(C)

----------------------------------------------------------------------------
(* The inputs of the calls *)

ValChars == {"1", NEMO_NON_BREAKING_SPACE}
SepChars == {" ", NEMO_NON_BREAKING_SPACE}
NameChars == {"d", "y"}
WrapChars == {"a", NEMO_SPACE, NEMO_NON_BREAKING_SPACE}
PluralChars == {"b", "o", "x", "y", "s", "h"}
GapChars == {" ", "\t"}
Words == {<<"a">>, <<"b">>}
Margins == {<<>>, <<" ">>}

Markers ==
    {[kind |-> "none", name |-> <<>>], [kind |-> "preserve_order", name |-> <<>>]}
    \cup {[kind |-> "field_order", name |-> n] : n \in Strings(NameChars, 1, MaxNameLen)}

Months == {row[1] : row \in months_tsv}

DateArgs ==
    [order : {"dm", "md"}, d : Strings(ValChars, 1, MaxValLen), m : Months,
     sep : Strings(SepChars, 0, MaxWs), marker : Markers]
    \cup [order : {"y"}, d : Strings(ValChars, 1, MaxValLen), m : {<<>>},
          sep : {<<>>}, marker : Markers]

MarkerText(mk) ==
    CASE mk.kind = "none" -> <<>>
      [] mk.kind = "preserve_order" -> <<" ", "p", "r", "e", "s", "e", "r", "v", "e", "_", "o", "r", "d", "e", "r", ":", " ", "t", "r", "u", "e">>
      [] mk.kind = "field_order" -> <<" ", "f", "i", "e", "l", "d", "_", "o", "r", "d", "e", "r", ":", " ", "\"">> \o mk.name \o <<QUOTE>>

DayField(d) == <<"d", "a", "y", ":", " ", "\"">> \o d \o <<QUOTE>>
MonthField(m) == <<"m", "o", "n", "t", "h", ":", " ", "\"">> \o m \o <<QUOTE>>
YearField(y) == <<"y", "e", "a", "r", ":", " ", "\"">> \o y \o <<QUOTE>>

DateFields(a) ==
    CASE a.order = "dm" -> DayField(a.d) \o a.sep \o MonthField(a.m)
      [] a.order = "md" -> MonthField(a.m) \o a.sep \o DayField(a.d)
      [] a.order = "y" -> YearField(a.d)

\* date { <fields><marker> }
DateRecord(a) == <<"d", "a", "t", "e", " ", "{", " ">> \o DateFields(a) \o MarkerText(a.marker) \o <<" ", "}">>

SentenceArgs ==
    UNION {[words : [1..n -> Words], gaps : [1..(n - 1) -> Strings(GapChars, 0, MaxWs)],
            lead : Margins, trail : Margins] : n \in 0..MaxBlocks}

Block(w) == <<"t", "o", "k", "e", "n", "s", " ", "{", " ", "n", "a", "m", "e", ":", " ", "\"">> \o w \o <<"\"", " ", "}">>

\* the blocks from the i-th on, each preceded by the gap before it
RECURSIVE BlocksFrom(_, _)
BlocksFrom(a, i) ==
    IF i > Len(a.words) THEN <<>>
    ELSE (IF i = 1 THEN <<>> ELSE a.gaps[i - 1]) \o Block(a.words[i]) \o BlocksFrom(a, i + 1)

Sentence(a) == a.lead \o BlocksFrom(a, 1) \o a.trail

\* the inputs and outputs the base grammars are drawn from
BaseInputs == {<<"a", "b">>, <<"A", "b">>, <<"U+00E9", "b">>}
BaseOutputs == {<<"x">>, <<"y">>}
LowerCased == {<<"a", "b">>, <<"U+00E9", "b">>}
Weights == {<<>>, <<MIN_NEG_WEIGHT>>, <<MIN_POS_WEIGHT>>}

----------------------------------------------------------------------------
(* The grammar unit's construction and the calls made once it is built *)

Units == {"date", "verbalize_final"}
UnitName(u) == IF u = "date" THEN <<"d", "a", "t", "e">> ELSE <<"v", "e", "r", "b", "a", "l", "i", "z", "e", "_", "f", "i", "n", "a", "l">>

Init ==
    /\ unit \in Units
    /\ pc = "new"
    /\ far_exist \in BOOLEAN
    /\ fst = "None"
    /\ assigned = 0
    /\ op = "none"
    /\ args = <<>>
    /\ res = {}

\* GraphFst.__init__: self._fst = None, then the compiled artifact if there is one
GraphFst_init ==
    /\ pc = "new"
    /\ fst' = IF far_exist THEN "far" ELSE "None"
    /\ assigned' = IF far_exist THEN assigned + 1 ELSE assigned
    /\ pc' = "base"
    /\ UNCHANGED <<unit, far_exist, op, args, res>>

\* DateFst.__init__ after super().__init__: self.fst = delete_tokens.optimize()
DateFst_init ==
    /\ unit = "date"
    /\ pc = "base"
    /\ fst' = "built"
    /\ assigned' = assigned + 1
    /\ pc' = "ready"
    /\ UNCHANGED <<unit, far_exist, op, args, res>>

\* VerbalizeFinalFst.__init__ after super().__init__: self.fst = graph
VerbalizeFinalFst_init ==
    /\ unit = "verbalize_final"
    /\ pc = "base"
    /\ fst' = "built"
    /\ assigned' = assigned + 1
    /\ pc' = "ready"
    /\ UNCHANGED <<unit, far_exist, op, args, res>>

\* one record through DateFst().fst
VerbalizeDate ==
    /\ unit = "date"
    /\ pc = "ready"
    /\ op = "none"
    /\ \E a \in DateArgs :
          /\ args' = a
          /\ res' = Outputs(DateFst_fst(Start(DateRecord(a))))
    /\ op' = "date"
    /\ UNCHANGED <<unit, pc, far_exist, fst, assigned>>

\* one sentence of tokens { ... } blocks through VerbalizeFinalFst().fst
VerbalizeFinal ==
    /\ unit = "verbalize_final"
    /\ pc = "ready"
    /\ op = "none"
    /\ \E a \in SentenceArgs :
          /\ args' = a
          /\ res' = Outputs(VerbalizeFinalFst_fst(Start(Sentence(a))))
    /\ op' = "final"
    /\ UNCHANGED <<unit, pc, far_exist, fst, assigned>>

\* the unit's add_tokens on the tagger's side of a field, then its
\* delete_tokens on the verbalizer's side
WrapUnwrap ==
    /\ pc = "ready"
    /\ op = "none"
    /\ \E v \in Strings(WrapChars, 0, MaxValLen),
          tagger \in {"TagField", "TagFieldSpaced"},
          inner \in {"FieldContent", "word"} :
          LET records == Outputs(add_tokens(UnitName(unit), tagger, Start(v)))
          IN  /\ args' = [name |-> UnitName(unit), v |-> v, tagger |-> tagger,
                          inner |-> inner, records |-> records]
              /\ res' = UNION {Outputs(delete_tokens(UnitName(unit), inner, Start(r))) :
                                 r \in records}
    /\ op' = "wrap"
    /\ UNCHANGED <<unit, pc, far_exist, fst, assigned>>

\* one control token through the shared delete_preserve_order
DeletePreserveOrder ==
    /\ pc = "ready"
    /\ op = "none"
    /\ \E mk \in Markers \ {[kind |-> "none", name |-> <<>>]} :
          /\ args' = [marker |-> mk]
          /\ res' = Outputs(delete_preserve_order(Start(MarkerText(mk))))
    /\ op' = "order"
    /\ UNCHANGED <<unit, pc, far_exist, fst, assigned>>

\* SINGULAR_TO_PLURAL on a word, PLURAL_TO_SINGULAR on its plurals, and
\* SINGULAR_TO_PLURAL again on those singulars
Pluralize ==
    /\ pc = "ready"
    /\ op = "none"
    /\ \E w \in Strings(PluralChars, 0, MaxWordLen) \cup {row[1] : row \in suppletive_tsv} :
          LET plurals == SINGULAR_TO_PLURAL(w)
              singulars == UNION {PLURAL_TO_SINGULAR(p) : p \in plurals}
          IN  /\ args' = [w |-> w, singulars |-> singulars,
                          again |-> UNION {SINGULAR_TO_PLURAL(v) : v \in singulars}]
              /\ res' = plurals
    /\ op' = "plural"
    /\ UNCHANGED <<unit, pc, far_exist, fst, assigned>>

\* capitalized_input_graph on a base grammar, run on s and on s capitalized
Capitalize ==
    /\ pc = "ready"
    /\ op = "none"
    /\ \E g \in SUBSET [in : BaseInputs, out : BaseOutputs, w : {0}],
          ow \in Weights, cw \in Weights, s \in LowerCased :
          /\ OutputsOn(g, s) # {}
          /\ LET graph == capitalized_input_graph(g, ow, cw)
             IN  /\ args' = [g |-> g, ow |-> ow, cw |-> cw, s |-> s,
                             pairs |-> Pairs(graph), plain |-> OutputsOn(graph, s)]
                 /\ res' = OutputsOn(graph, capitalize_first_letter(s))
    /\ op' = "capitalize"
    /\ UNCHANGED <<unit, pc, far_exist, fst, assigned>>

Next ==
    \/ GraphFst_init
    \/ DateFst_init
    \/ VerbalizeFinalFst_init
    \/ VerbalizeDate
    \/ VerbalizeFinal
    \/ WrapUnwrap
    \/ DeletePreserveOrder
    \/ Pluralize
    \/ Capitalize

Spec == Init /\ [][Next]_vars

----------------------------------------------------------------------------
(* The claims *)

HasNbsp(s) == \E i \in 1..Len(s) : s[i] = NEMO_NON_BREAKING_SPACE

\* t is s with every U+00A0 replaced by one ordinary space, all else unchanged
IsRestored(s, t) ==
    /\ Len(t) = Len(s)
    /\ \A i \in 1..Len(s) :
          t[i] = (IF s[i] = NEMO_NON_BREAKING_SPACE THEN " " ELSE s[i])

IsFramed == op = "wrap" /\ args.inner = "FieldContent"

\* the field content x that add_tokens framed: the record without "<name> { " and " }"
ContentOf(name, record) == SubSeq(record, Len(name) + 4, Len(record) - 2)

Contents == {ContentOf(args.name, r) : r \in args.records}

\* C1 (as stated): delete_tokens applied to "<name> { " + x + " }" yields exactly
\* x and no other output.
C1_RoundTripVerbatim == IsFramed => res = Contents

\* C1 (amended): delete_tokens applied to "<name> { " + x + " }" yields exactly
\* one output, x with every U+00A0 replaced by an ordinary space, hence x itself
\* when x holds no U+00A0.
C1_RoundTrip ==
    IsFramed =>
        /\ Cardinality(res) = 1
        /\ \A x \in Contents :
              /\ \A o \in res : IsRestored(x, o)
              /\ ~HasNbsp(x) => res = {x}

C1_Witness ==
    /\ IsFramed
    /\ args.tagger = "TagFieldSpaced"
    /\ args.v = <<"a", " ">>
    /\ Contents = {<<"n", "a", "m", "e", ":", " ", "\"", "a">> \o <<NEMO_NON_BREAKING_SPACE, QUOTE>>}
    /\ res = {<<"n", "a", "m", "e", ":", " ", "\"", "a", " ", "\"">>}

Rendering(m) == (CHOOSE row \in months_tsv : row[1] = m)[2]

IsDayMonth == op = "date" /\ args.order = "dm" /\ args.sep # <<>>

\* C2 (as stated): date { day: "<d>" month: "<m>" }, with or without a trailing
\* preserve_order: true and with any positive whitespace between the fields,
\* verbalizes to exactly <d> de <m'>.
C2_DayDeMonthVerbatim ==
    (IsDayMonth /\ args.marker.kind \in {"none", "preserve_order"})
        => res = {args.d \o <<" ", "d", "e", " ">> \o Rendering(args.m)}

\* C2 (amended): the only output is <d'> de <m'>, d' being d with every U+00A0
\* replaced by an ordinary space; one space on each side of the joiner "de" and
\* nothing before d' or after m'.
C2_DayDeMonth ==
    (IsDayMonth /\ args.marker.kind \in {"none", "preserve_order"})
        => /\ Cardinality(res) = 1
           /\ \A o \in res :
                 /\ Len(o) = Len(args.d) + 4 + Len(Rendering(args.m))
                 /\ IsRestored(args.d, SubSeq(o, 1, Len(args.d)))
                 /\ SubSeq(o, Len(args.d) + 1, Len(o)) = <<" ", "d", "e", " ">> \o Rendering(args.m)

C2_Witness ==
    /\ IsDayMonth
    /\ Len(args.sep) = 2
    /\ args.marker.kind = "preserve_order"
    /\ args.d = <<"1">>
    /\ res = {<<"1", " ", "d", "e", " ", "e", "n", "e", "r", "o">>}

IsException(w) == \E row \in suppletive_tsv : row[1] = w

EndsInConsonantY(w) ==
    Len(w) >= 2 /\ w[Len(w)] = "y" /\ w[Len(w) - 1] \in _c

EndsInSibilant(w) == \E suffix \in {<<"s">>, <<"s", "h">>, <<"c", "h">>, <<"x">>, <<"z">>} : IsSuffix(suffix, w)

\* C3: SINGULAR_TO_PLURAL gives the single output of the first rule that
\* matches, in the order exception table, consonant+y -> ies, +es after
\* s/sh/ch/x/z, +s; no output of a later rule is produced as well.
C3_PriorityOrder ==
    op = "plural" =>
        LET w == args.w
        IN  /\ Cardinality(res) = 1
            /\ IsException(w) =>
                  res = {(CHOOSE row \in suppletive_tsv : row[1] = w)[2]}
            /\ (~IsException(w) /\ EndsInConsonantY(w)) =>
                  res = {SubSeq(w, 1, Len(w) - 1) \o <<"i", "e", "s">>}
            /\ (~IsException(w) /\ ~EndsInConsonantY(w) /\ EndsInSibilant(w)) =>
                  res = {w \o <<"e", "s">>}
            /\ (~IsException(w) /\ ~EndsInConsonantY(w) /\ ~EndsInSibilant(w)) =>
                  res = {w \o <<"s">>}

C3_Witness == op = "plural" /\ args.w = <<"b", "o", "x">> /\ res = {<<"b", "o", "x", "e", "s">>}

\* C4 (as stated): for a regular word w the plural of the singular of the plural
\* is the plural, and PLURAL_TO_SINGULAR on the plural gives back w.
C4_InverseRecoversSingular ==
    (op = "plural" /\ ~IsException(args.w)) =>
        /\ args.again = res
        /\ args.singulars = {args.w}

\* C4 (amended): for a regular word w the plural of every singular of the plural
\* is the plural, and w is one of the outputs of PLURAL_TO_SINGULAR on the
\* plural (there may be others with the same plural: "boxes" gives "box" and
\* "boxe").
C4_PluralSingularConsistent ==
    (op = "plural" /\ ~IsException(args.w)) =>
        /\ args.again = res
        /\ args.w \in args.singulars
        /\ \A v \in args.singulars : SINGULAR_TO_PLURAL(v) = res

C4_Witness ==
    /\ op = "plural"
    /\ args.w = <<"b", "o", "x">>
    /\ res = {<<"b", "o", "x", "e", "s">>}
    /\ args.singulars = {<<"b", "o", "x">>, <<"b", "o", "x", "e">>}
    /\ args.again = {<<"b", "o", "x", "e", "s">>}

IsAsciiLower(ch) == \E i \in DOMAIN ascii_lowercase : ascii_lowercase[i] = ch

\* C5 (as stated): for every base grammar g and lower-cased s that g accepts,
\* capitalized_input_graph(g) gives on s and on capitalize_first_letter(s) the
\* outputs g gives on s, whatever the weights.
C5_CapitalizedSameOutputs ==
    op = "capitalize" =>
        /\ args.plain = OutputsOn(args.g, args.s)
        /\ res = OutputsOn(args.g, args.s)

\* C5 (amended): on s the outputs are those g gives on s; when s starts with an
\* ASCII lower-case letter, capitalize_first_letter(s) is accepted too and its
\* outputs are those g gives on s together with those g itself gives on the
\* capitalized string; the weights never change the accepted pairs.
C5_CapitalizedAccepted ==
    op = "capitalize" =>
        /\ args.plain = OutputsOn(args.g, args.s)
        /\ IsAsciiLower(args.s[1]) =>
              res = OutputsOn(args.g, args.s)
                      \cup OutputsOn(args.g, capitalize_first_letter(args.s))
        /\ args.pairs = Pairs(capitalized_input_graph(args.g, <<>>, <<>>))
        /\ Pairs(args.g) \subseteq args.pairs

C5_Witness ==
    /\ op = "capitalize"
    /\ args.s = <<"a", "b">>
    /\ args.ow = <<MIN_POS_WEIGHT>>
    /\ args.cw = <<MIN_NEG_WEIGHT>>
    /\ Pairs(args.g) = {<<args.s, <<"x">>>>}
    /\ res = {<<"x">>}
    /\ args.plain = {<<"x">>}

\* C6: over a unit's construction the transducer handle is set exactly once: a
\* compiled artifact that exists is loaded and stays the unit's transducer, and
\* the concrete grammar builds one only when there is none.
C6_HandleSetOnce ==
    /\ assigned <= 1
    /\ pc = "ready" => assigned = 1
    /\ (pc = "ready" /\ far_exist) => fst = "far"

\* C7: a record ending with field_order: "<name>", for any non-empty quote-free
\* name, is accepted and the control token adds no character to the output, in
\* DateFst and in the shared delete_preserve_order.
C7_FieldOrderSilent ==
    /\ (IsDayMonth /\ args.marker.kind = "field_order" /\ ~HasNbsp(args.d))
          => res = {args.d \o <<" ", "d", "e", " ">> \o Rendering(args.m)}
    /\ (op = "order" /\ args.marker.kind = "field_order") => res = {<<>>}

InnerOutputs ==
    IF op = "date"
    THEN Outputs(final_graph(Start(DateFields(args) \o MarkerText(args.marker))))
    ELSE UNION {Outputs(apply(args.inner, Start(x))) : x \in Contents}

\* C9: every output of delete_tokens(g) holds no U+00A0 and is g's output with
\* every U+00A0 replaced by one ordinary space; so convert_space followed by
\* delete_tokens' rewrite gives back a value that holds no U+00A0.
C9_SpaceRestored ==
    /\ op \in {"wrap", "date"} => \A o \in res : ~HasNbsp(o)
    /\ op \in {"wrap", "date"} =>
          /\ \A o \in res : \E g \in InnerOutputs : IsRestored(g, o)
          /\ \A g \in InnerOutputs : \E o \in res : IsRestored(g, o)
    /\ (op = "wrap" /\ args.tagger = "TagFieldSpaced" /\ args.inner = "word"
          /\ args.v # <<>> /\ ~HasNbsp(args.v)) => res = {args.v}

C9_Witness ==
    /\ op = "wrap"
    /\ args.tagger = "TagFieldSpaced"
    /\ args.inner = "word"
    /\ args.v = <<" ", " ">>
    /\ \A r \in args.records : HasNbsp(r)
    /\ res = {args.v}

\* the words from the i-th on, each preceded by one space but the first
RECURSIVE JoinedFrom(_, _)
JoinedFrom(words, i) ==
    IF i > Len(words) THEN <<>>
    ELSE (IF i = 1 THEN <<>> ELSE <<" ">>) \o words[i] \o JoinedFrom(words, i + 1)

\* C10: n >= 1 blocks separated by one or more whitespace characters, with
\* optional whitespace before and after, verbalize to the blocks' outputs in
\* order joined by exactly one space; zero blocks, or two blocks with nothing
\* between them, have no accepting path.
C10_SentenceJoined ==
    op = "final" =>
        IF Len(args.words) >= 1 /\ \A i \in DOMAIN args.gaps : args.gaps[i] # <<>>
        THEN res = {JoinedFrom(args.words, 1)}
        ELSE res = {}

C10_Witness ==
    /\ op = "final"
    /\ args.words = <<<<"b">>, <<"a">>>>
    /\ args.gaps = << <<"\t", " ">> >>
    /\ args.lead = <<" ">>
    /\ res = {<<"b", " ", "a">>}

====
